---- MODULE Spec2Model ----
(***************************************************************************)
(* Presence detection and capture arbitration of the doorbell pipeline.    *)
(*                                                                         *)
(*   backend/scripts/main.py        the production capture loop            *)
(*                                  (consecutive frames + cooldown + ROI)  *)
(*                                  and its capture handler (classify,     *)
(*                                  blur, write, upload, clean up)         *)
(*                                  the video source handle (reconnect,    *)
(*                                  read failure, release at exit)         *)
(*   backend/src/clients/baseten_client.py  the classifier call            *)
(*   supabase_client.py             save_detection and the storage path    *)
(*   backend/src/costume_detector.py  the dual-pass gate                   *)
(*   detect_people.py, backend/src/detection/person_detector.py            *)
(*                                  the earlier loops (duplicate timeout)  *)
(*                                                                         *)
(* Units.  Times are whole seconds.  Confidences are hundredths (0.7 is    *)
(* 70).  Detector box coordinates are floats in the source; here they are  *)
(* integers counting 1/Sub of a pixel, so that int() truncation and the    *)
(* float ROI test are both computed exactly.  ROI bounds are hundredths of *)
(* the frame dimension.                                                    *)
(***************************************************************************)
EXTENDS Integers, Sequences, FiniteSets, TLC

\* ---------------------------------------------------------------- bounds
StartTime == 100          \* clock reading when the loop is entered
Horizon == 70             \* seconds of clock time explored
TickStep == 10            \* clock advance during one loop iteration, when any
MaxDet == 2               \* detections per frame
Sub == 2                  \* sub-pixel resolution of detector coordinates
FrameWidth == 10          \* frame.shape[1]
FrameHeight == 10         \* frame.shape[0]
RunCap == 3               \* present_run stops counting here
TailFrames == 53          \* free sampled frames after the 12 of the scenario

MaxNamed == 2             \* captures named in one run of the naming steps
MaxCaptures == 2          \* captures followed in detect_people.py and person_detector.py
MaxFailures == 2          \* failed frame reads followed
MaxHours == 1             \* reconnect intervals of clock time explored beyond Horizon

MaxTime == StartTime + Horizon

\* ------------------------------------- parameters of the design document
\* They have no counterpart in main.py, which counts frames instead.
dwell_time == 8
grace_period == 2
ScenarioFrames == 12
ScenarioPresent == 9

\* ------------------------------------------------------ program constants
CONFIDENCE_THRESHOLD == 70
CONSECUTIVE_FRAMES_REQUIRED == 2
CAPTURE_COOLDOWN == 60
ROI_X_MIN == 0
ROI_X_MAX == 70
ROI_Y_MIN == 0
ROI_Y_MAX == 100
FRAME_STRIDE == 30
PERSON_CLASS == 0
CAR_CLASS == 2
BUS_CLASS == 5
BIRD_CLASS == 14
INFLATABLE_CLASSES == {2, 14, 16, 17}
LEGACY_CONFIDENCE_THRESHOLD == 50
DUPLICATE_DETECTION_TIMEOUT_SECONDS == 2
RECONNECT_INTERVAL == 3600

VARIABLES
  now,                     \* time.time(): the last clock reading (current_time)
  frame_count,             \* frame_count % 30 (only the residue is ever read)
  detection_count,
  consecutive_detections,
  last_capture_time,
  in_cooldown,
  results,                 \* detector output of the frame just processed
  people_detected,         \* presence verdict of the frame just processed
  detected_people,         \* subjects of the capture just made
  event,                   \* branch taken by the last loop iteration
  \* history of the run, not program state
  episode_start_time,      \* clock at the frame that began the counted run, 0 if none
  last_seen_time,          \* clock at the last sampled frame with a person, 0 if none
  present_run,             \* sampled frames so far if all had a person (<= RunCap), else -1
  frame_no,                \* sampled frames so far (scenario runs only)
  \* detect_people_and_costumes (costume_detector.py)
  baseten_client,          \* TRUE when a classifier client was passed
  potential_inflatables,
  gate_pc,                 \* "idle", "validate", "returned"
  gate_next,               \* position of the for loop in potential_inflatables
  gate_log,                \* classifier calls made so far, with their outcome
  \* detect_people.py and person_detector.py
  script,                  \* which of the loops is running
  last_detection_time,
  \* the capture handler of main.py, lines 266-368
  pc,                      \* where the script is: "loop" (line 140), "classify",
                           \* "waiting" (in classify_costume), "upload",
                           \* "reconnecting", "read", "recovering", "exited",
                           \* "terminated"
  supabase_client,         \* TRUE when the store client was constructed
  person_idx,              \* position of the for loop over detected_people
  frame,                   \* pixels of the frame buffer read from the source
  blurred_frame,           \* pixels of the copy, NoImage before line 318
  disk,                    \* image files in the working directory
  \* history of the capture being handled, not program state
  classify_log,            \* classifier calls: subject and pixels of its crop
  store_log,               \* save_detection calls: record, image file, outcome
  \* naming of the image (main.py 231-233, supabase_client.py 51-54)
  detection_timestamp,     \* datetime.now(...) of the capture being named
  filename,                \* local file name, empty when no capture is being named
  storage_path,            \* path in the bucket, empty before the upload
  device_id,               \* SupabaseClient.device_id
  named,                   \* history: timestamp and names of the captures so far
  \* the video source (main.py 112-177 and 375-382)
  cap,                     \* the VideoCapture object the name cap is bound to
  open_handles,            \* VideoCapture objects created and not yet released
  failed_frame_count,
  last_reconnect_time,
  periodic_count,          \* history: periodic reconnections so far
  \* one call of SupabaseClient.save_detection (supabase_client.py 130-176)
  save_pc,                 \* "idle", "upload", "insert", "return", "done"
  save_args,               \* the arguments of the call
  image_url,               \* value of upload_detection_image, None if it failed
  insert_log,              \* rows handed to insert(...).execute(), with the outcome
  save_return              \* what the call gave back: "none" yet, TRUE, FALSE, "raised"

main_vars == <<now, frame_count, detection_count, consecutive_detections,
               last_capture_time, in_cooldown, results, people_detected,
               detected_people, event, episode_start_time, last_seen_time,
               present_run>>

gate_vars == <<baseten_client, potential_inflatables, gate_pc, gate_next,
               gate_log>>

legacy_vars == <<script, last_detection_time>>

capture_vars == <<pc, supabase_client, person_idx, frame, blurred_frame, disk,
                  classify_log, store_log>>

naming_vars == <<detection_timestamp, filename, storage_path, device_id, named>>

source_vars == <<cap, open_handles, failed_frame_count, last_reconnect_time,
                 periodic_count>>

save_vars == <<save_pc, save_args, image_url, insert_log, save_return>>

vars == <<main_vars, frame_no, gate_vars, legacy_vars, capture_vars, naming_vars,
          source_vars, save_vars>>

\* ------------------------------------------------------------ detections
\* box.xyxy in 1/Sub pixel units, x1 < x2, y1 < y2, inside the frame.
BoxIn == <<2, 2, 10, 18>>        \* centre x = 3.0 px
BoxOut == <<16, 2, 20, 18>>      \* centre x = 9.0 px
BoxEdge == <<13, 2, 16, 18>>     \* 6.5..8.0 px: centre 7.25 px, int() gives 6..8
Boxes == {BoxIn, BoxOut, BoxEdge}

Confs == {CONFIDENCE_THRESHOLD, 90}

\* A person over the threshold in each box, and in the doorstep box also a
\* person at the threshold and a car.
Detections ==
  {d \in [cls : {PERSON_CLASS, CAR_CLASS}, conf : Confs, xyxy : Boxes] :
      (d.cls = PERSON_CLASS /\ d.conf = 90) \/ d.xyxy = BoxIn} \
  {[cls |-> CAR_CLASS, conf |-> CONFIDENCE_THRESHOLD, xyxy |-> BoxIn]}

SeqsUpTo(S, n) == UNION {[1..k -> S] : k \in 0..n}

Frames == SeqsUpTo(Detections, MaxDet)

\* int(v) for a non-negative float v held in 1/Sub units; result in pixels.
PyInt(v) == v \div Sub

\* A pixel-valued box back in 1/Sub units.
ToUnits(b) == <<b[1] * Sub, b[2] * Sub, b[3] * Sub, b[4] * Sub>>

is_in_roi(bbox, frame_width, frame_height) ==
  LET cx2 == bbox[1] + bbox[3]      \* 2 * center_x, in 1/Sub units
      cy2 == bbox[2] + bbox[4]
      wx == 2 * Sub * frame_width   \* norm_x = cx2 / wx
      wy == 2 * Sub * frame_height
  IN  /\ ROI_X_MIN * wx <= 100 * cx2
      /\ 100 * cx2 <= ROI_X_MAX * wx
      /\ ROI_Y_MIN * wy <= 100 * cy2
      /\ 100 * cy2 <= ROI_Y_MAX * wy

\* Lines 196-201: the test a box passes to make people_detected true.
Qualifies(box) ==
  /\ box.cls = PERSON_CLASS
  /\ box.conf > CONFIDENCE_THRESHOLD
  /\ is_in_roi(box.xyxy, FrameWidth, FrameHeight)

PresenceVerdict(res) == \E i \in DOMAIN res : Qualifies(res[i])

IntBox(box) ==
  [x1 |-> PyInt(box.xyxy[1]), y1 |-> PyInt(box.xyxy[2]),
   x2 |-> PyInt(box.xyxy[3]), y2 |-> PyInt(box.xyxy[4])]

\* Lines 240-245: the test a box passes to be appended to detected_people.
Collected(box) ==
  /\ box.cls = PERSON_CLASS
  /\ box.conf > CONFIDENCE_THRESHOLD
  /\ LET b == IntBox(box)
     IN  is_in_roi(ToUnits(<<b.x1, b.y1, b.x2, b.y2>>), FrameWidth, FrameHeight)

RECURSIVE CollectFrom(_, _)
CollectFrom(res, i) ==
  IF i > Len(res) THEN <<>>
  ELSE LET rest == CollectFrom(res, i + 1)
       IN  IF Collected(res[i])
           THEN <<[confidence |-> res[i].conf,
                   bounding_box |-> IntBox(res[i]),
                   det |-> i]>> \o rest
           ELSE rest

\* detected_people as built by lines 236-254; det is the index of the
\* originating detection in results (bookkeeping, not a field of the dict).
CollectPeople(res) == CollectFrom(res, 1)

\* ----------------------------------------------------------------- names
\* A datetime is known by its fields; None before the first capture.
NoTimestamp == [year |-> 0]

\* os.getenv("DEVICE_ID", "unknown-device")
unknown_device == <<"u", "n", "k", "n", "o", "w", "n", "-", "d", "e", "v", "i", "c", "e">>

\* ---------------------------------------------------------------- pixels
\* A frame buffer is known by what has been painted over the pixels read
\* from the source: the detections whose region was blurred and those whose
\* box was drawn.
Raw == [blur |-> {}, boxes |-> {}]

NoImage == [blur |-> {-1}, boxes |-> {-1}]

\* ---------------------------------------------------------- video source
\* A VideoCapture object: opened is isOpened(), released is whether
\* release() has been called on it.
Handle(opened) == [opened |-> opened, released |-> FALSE]

\* Lines 112-129: the loop is entered with the stream open (the script
\* exits at line 116 otherwise).
SourceInit ==
  /\ cap = Handle(TRUE)
  /\ open_handles = 1
  /\ failed_frame_count = 0
  /\ last_reconnect_time = StartTime
  /\ periodic_count = 0

\* No call of save_detection is under way.
SaveIdle ==
  /\ save_pc = "idle"
  /\ save_args = [t |-> "none"]
  /\ image_url = [t |-> "none"]
  /\ insert_log = <<>>
  /\ save_return = "none"

\* ------------------------------------------------------------------ init
Init ==
  /\ now = StartTime
  /\ frame_count = 0
  /\ detection_count = 0
  /\ consecutive_detections = 0
  /\ last_capture_time = 0
  /\ in_cooldown = FALSE
  /\ results = <<>>
  /\ people_detected = FALSE
  /\ detected_people = <<>>
  /\ event = "start"
  /\ episode_start_time = 0
  /\ last_seen_time = 0
  /\ present_run = 0
  /\ frame_no = 0
  /\ baseten_client = FALSE
  /\ potential_inflatables = <<>>
  /\ gate_pc = "idle"
  /\ gate_next = 0
  /\ gate_log = <<>>
  /\ script = "main"
  /\ last_detection_time = 0
  /\ pc = "loop"
  /\ supabase_client = FALSE
  /\ person_idx = 0
  /\ frame = Raw
  /\ blurred_frame = NoImage
  /\ disk = {}
  /\ classify_log = <<>>
  /\ store_log = <<>>
  /\ detection_timestamp = NoTimestamp
  /\ filename = <<>>
  /\ storage_path = <<>>
  /\ device_id = unknown_device
  /\ named = <<>>
  /\ SourceInit
  /\ SaveIdle

\* --------------------------------------------------------------- actions
\* Mutant of Sampled: the counter is tested before it is incremented.
SampledBeforeIncrement == frame_count % FRAME_STRIDE = 0

\* Lines 179-183: the frame just read is one of every FRAME_STRIDE.
Sampled == (frame_count + 1) % FRAME_STRIDE = 0

ReadClock(d) == now' = now + d

Min(a, b) == IF a < b THEN a ELSE b

\* Lines 165-183: a frame is read and is not one of every 30.
SkipFrame(d) ==
  /\ ~Sampled
  /\ ReadClock(d)
  /\ frame_count' = (frame_count + 1) % FRAME_STRIDE
  /\ results' = <<>>
  /\ people_detected' = FALSE
  /\ detected_people' = <<>>
  /\ event' = "skip"
  /\ UNCHANGED <<detection_count, consecutive_detections, last_capture_time,
                 in_cooldown, episode_start_time, last_seen_time, present_run>>

\* Lines 179-207: the sampled frame is run through the detector.
DetectFrame(res, d) ==
  /\ Sampled
  /\ ReadClock(d)
  /\ frame_count' = (frame_count + 1) % FRAME_STRIDE
  /\ results' = res
  /\ people_detected' = PresenceVerdict(res)
  /\ present_run' = IF present_run >= 0 /\ PresenceVerdict(res)
                    THEN Min(present_run + 1, RunCap) ELSE -1
  /\ last_seen_time' = IF PresenceVerdict(res) THEN now' ELSE last_seen_time

\* Mutant of CooldownExpired: the clock is compared without subtracting the
\* capture time.
CooldownExpiredNoBase(t) == t >= CAPTURE_COOLDOWN

\* Lines 211-212.
CooldownExpired(t) == t - last_capture_time >= CAPTURE_COOLDOWN

\* Mutant of EnoughFrames: one more frame is asked for.
EnoughFramesStrict(n) == n > CONSECUTIVE_FRAMES_REQUIRED

\* Line 226.
EnoughFrames(n) == n >= CONSECUTIVE_FRAMES_REQUIRED

\* Mutant of CooldownFrame: the frame on which the cooldown is found expired
\* is counted as a present frame.
CooldownFrameReevaluate(res, d) ==
  /\ DetectFrame(res, d)
  /\ in_cooldown
  /\ in_cooldown' = ~CooldownExpired(now')
  /\ consecutive_detections' =
       IF CooldownExpired(now') /\ PresenceVerdict(res) THEN 1 ELSE 0
  /\ detected_people' = <<>>
  /\ event' = IF CooldownExpired(now') THEN "expired" ELSE "cooldown"
  /\ episode_start_time' = 0
  /\ UNCHANGED <<detection_count, last_capture_time>>

\* Mutant of CooldownFrame: a person seen during the cooldown starts the
\* cooldown again.
CooldownFrameExtend(res, d) ==
  /\ DetectFrame(res, d)
  /\ in_cooldown
  /\ in_cooldown' = (PresenceVerdict(res) \/ ~CooldownExpired(now'))
  /\ last_capture_time' = IF PresenceVerdict(res) THEN now' ELSE last_capture_time
  /\ consecutive_detections' = 0
  /\ detected_people' = <<>>
  /\ event' = IF in_cooldown' THEN "cooldown" ELSE "expired"
  /\ episode_start_time' = 0
  /\ UNCHANGED detection_count

\* Lines 210-218: sampled frame while in cooldown.
CooldownFrame(res, d) ==
  /\ DetectFrame(res, d)
  /\ in_cooldown
  /\ in_cooldown' = ~CooldownExpired(now')
  /\ consecutive_detections' = 0
  /\ detected_people' = <<>>
  /\ event' = IF CooldownExpired(now') THEN "expired" ELSE "cooldown"
  /\ episode_start_time' = 0
  /\ UNCHANGED <<detection_count, last_capture_time>>

\* Mutant of PresentFrame: the counter goes on counting at the required
\* number of frames instead of handing over to the capture.
PresentFrameUnbounded(res, d) ==
  /\ DetectFrame(res, d)
  /\ ~in_cooldown
  /\ PresenceVerdict(res)
  /\ consecutive_detections <= CONSECUTIVE_FRAMES_REQUIRED
  /\ consecutive_detections' = consecutive_detections + 1
  /\ detected_people' = <<>>
  /\ event' = "present"
  /\ episode_start_time' =
       IF consecutive_detections = 0 THEN now' ELSE episode_start_time
  /\ UNCHANGED <<detection_count, last_capture_time, in_cooldown>>

\* Lines 221-226: person present, not yet enough consecutive frames.
PresentFrame(res, d) ==
  /\ DetectFrame(res, d)
  /\ ~in_cooldown
  /\ PresenceVerdict(res)
  /\ ~EnoughFrames(consecutive_detections + 1)
  /\ consecutive_detections' = consecutive_detections + 1
  /\ detected_people' = <<>>
  /\ event' = "present"
  /\ episode_start_time' =
       IF consecutive_detections = 0 THEN now' ELSE episode_start_time
  /\ UNCHANGED <<detection_count, last_capture_time, in_cooldown>>

\* Mutant of CaptureFrame: the capture does not start the cooldown.
CaptureFrameNoCooldown(res, d) ==
  /\ DetectFrame(res, d)
  /\ ~in_cooldown
  /\ PresenceVerdict(res)
  /\ EnoughFrames(consecutive_detections + 1)
  /\ detection_count' = detection_count + 1
  /\ detected_people' = CollectPeople(res)
  /\ last_capture_time' = now'
  /\ in_cooldown' = FALSE
  /\ consecutive_detections' = 0
  /\ event' = "capture"
  /\ episode_start_time' = 0

\* Lines 226-263: enough consecutive frames, capture.
CaptureFrame(res, d) ==
  /\ DetectFrame(res, d)
  /\ ~in_cooldown
  /\ PresenceVerdict(res)
  /\ EnoughFrames(consecutive_detections + 1)
  /\ detection_count' = detection_count + 1
  /\ detected_people' = CollectPeople(res)
  /\ last_capture_time' = now'
  /\ in_cooldown' = TRUE
  /\ consecutive_detections' = 0
  /\ event' = "capture"
  /\ episode_start_time' = 0

\* Mutant of AbsentFrame: an absent frame leaves the counter alone.
AbsentFrameKeep(res, d) ==
  /\ DetectFrame(res, d)
  /\ ~in_cooldown
  /\ ~PresenceVerdict(res)
  /\ detected_people' = <<>>
  /\ event' = IF consecutive_detections > 0 THEN "left" ELSE "absent"
  /\ UNCHANGED <<detection_count, last_capture_time, in_cooldown,
                 consecutive_detections, episode_start_time>>

\* Lines 369-373: nobody present; "left" is the iteration that prints
\* "Person left frame - resetting counter".
AbsentFrame(res, d) ==
  /\ DetectFrame(res, d)
  /\ ~in_cooldown
  /\ ~PresenceVerdict(res)
  /\ consecutive_detections' = 0
  /\ detected_people' = <<>>
  /\ event' = IF consecutive_detections > 0 THEN "left" ELSE "absent"
  /\ episode_start_time' = 0
  /\ UNCHANGED <<detection_count, last_capture_time, in_cooldown>>

\* ------------------------------------------- the loop under any inputs
\* Spec follows the tracker alone: nothing after line 264 assigns a variable
\* the tracker reads.  CaptureSpec below goes through the handler as well.
Ticks == {0, TickStep}

InHorizon(d) == now + d <= MaxTime

Skip ==
  \E d \in Ticks : InHorizon(d) /\ SkipFrame(d) /\ UNCHANGED <<frame_no, gate_vars, legacy_vars, naming_vars, source_vars, save_vars, capture_vars>>

Cooldown ==
  \E res \in Frames, d \in Ticks :
     InHorizon(d) /\ CooldownFrame(res, d) /\ UNCHANGED <<frame_no, gate_vars, legacy_vars, naming_vars, source_vars, save_vars, capture_vars>>

Present ==
  \E res \in Frames, d \in Ticks :
     InHorizon(d) /\ PresentFrame(res, d) /\ UNCHANGED <<frame_no, gate_vars, legacy_vars, naming_vars, source_vars, save_vars, capture_vars>>

Capture ==
  \E res \in Frames, d \in Ticks :
     InHorizon(d) /\ CaptureFrame(res, d) /\ UNCHANGED <<frame_no, gate_vars, legacy_vars, naming_vars, source_vars, save_vars, capture_vars>>

Absent ==
  \E res \in Frames, d \in Ticks :
     InHorizon(d) /\ AbsentFrame(res, d) /\ UNCHANGED <<frame_no, gate_vars, legacy_vars, naming_vars, source_vars, save_vars, capture_vars>>

Next == Skip \/ Cooldown \/ Present \/ Capture \/ Absent

Spec == Init /\ [][Next]_vars

\* ------------------------------------ the loop under the 12-frame scenario
\* Sampled frames arrive one second apart; frames 1..ScenarioPresent have a
\* qualifying person, frames up to ScenarioFrames have none, later frames are
\* free.
ScenarioLast == ScenarioFrames + TailFrames

ScenarioInput(res) ==
  /\ frame_no < ScenarioLast
  /\ frame_no + 1 <= ScenarioPresent => PresenceVerdict(res)
  /\ (frame_no + 1 > ScenarioPresent /\ frame_no + 1 <= ScenarioFrames)
        => ~PresenceVerdict(res)

ScSkip == SkipFrame(0) /\ UNCHANGED <<frame_no, gate_vars, legacy_vars, naming_vars, source_vars, save_vars, capture_vars>>

ScCooldown ==
  \E res \in Frames :
     ScenarioInput(res) /\ CooldownFrame(res, 1) /\ frame_no' = frame_no + 1
     /\ UNCHANGED <<gate_vars, legacy_vars, naming_vars, source_vars, save_vars, capture_vars>>

ScPresent ==
  \E res \in Frames :
     ScenarioInput(res) /\ PresentFrame(res, 1) /\ frame_no' = frame_no + 1
     /\ UNCHANGED <<gate_vars, legacy_vars, naming_vars, source_vars, save_vars, capture_vars>>

ScCapture ==
  \E res \in Frames :
     ScenarioInput(res) /\ CaptureFrame(res, 1) /\ frame_no' = frame_no + 1
     /\ UNCHANGED <<gate_vars, legacy_vars, naming_vars, source_vars, save_vars, capture_vars>>

ScAbsent ==
  \E res \in Frames :
     ScenarioInput(res) /\ AbsentFrame(res, 1) /\ frame_no' = frame_no + 1
     /\ UNCHANGED <<gate_vars, legacy_vars, naming_vars, source_vars, save_vars, capture_vars>>

ScenarioNext == ScSkip \/ ScCooldown \/ ScPresent \/ ScCapture \/ ScAbsent

ScenarioSpec == Init /\ [][ScenarioNext]_vars

\* ================================================== costume_detector.py
\* Python strings are sequences of characters, None is its own value.
None == [t |-> "none"]
Str(chars) == [t |-> "str", v |-> chars]

UpperCase == <<"A", "C", "N", "P", "W">>
LowerCase == <<"a", "c", "n", "p", "w">>

LowerChar(c) ==
  IF \E i \in DOMAIN UpperCase : UpperCase[i] = c
  THEN LowerCase[CHOOSE i \in DOMAIN UpperCase : UpperCase[i] = c]
  ELSE c

\* str.lower()
Lower(chars) == [i \in DOMAIN chars |-> LowerChar(chars[i])]

\* needle in hay
Contains(hay, needle) ==
  \E i \in 1..(Len(hay) - Len(needle) + 1) :
     SubSeq(hay, i, i + Len(needle) - 1) = needle

\* bool(value) of a string or None
Truthy(value) == value.t = "str" /\ value.v # <<>>

person == <<"p", "e", "r", "s", "o", "n">>
no_costume == <<"n", "o", " ", "c", "o", "s", "t", "u", "m", "e">>

Labels ==
  {Str(person),
   Str(<<"P", "e", "r", "s", "o", "n">>),
   Str(<<"w", "i", "t", "c", "h">>),
   Str(<<>>)}

Descriptions ==
  {Str(<<"N", "o", " ", "c", "o", "s", "t", "u", "m", "e", " ",
         "v", "i", "s", "i", "b", "l", "e">>),
   Str(<<"A", " ", "w", "i", "t", "c", "h">>),
   None}

\* Outcome of one pass through the try block of lines 117-128: the crop,
\* the encoding or the call raises, classify_costume gives up with
\* (None, None, None), or it returns a parsed answer.
Outcomes ==
  {[kind |-> "raise"]} \cup
  {[kind |-> "result", label |-> None, confidence |-> 0, description |-> None]}
  \cup
  [kind : {"result"}, label : Labels, confidence : {95}, description : Descriptions]

\* Mutant of IsValid: the label is compared without lower().
IsValidCaseSensitive(costume_classification, costume_description) ==
  /\ Truthy(costume_classification)
  /\ ~(/\ costume_classification.v = person
       /\ Truthy(costume_description)
       /\ Contains(Lower(costume_description.v), no_costume))

\* Lines 132-136.
IsValid(costume_classification, costume_description) ==
  /\ Truthy(costume_classification)
  /\ ~(/\ Lower(costume_classification.v) = person
       /\ Truthy(costume_description)
       /\ Contains(Lower(costume_description.v), no_costume))

GateClasses == {PERSON_CLASS, CAR_CLASS, BUS_CLASS, BIRD_CLASS}

GateDetections == [cls : GateClasses, conf : Confs, xyxy : {BoxIn}]

GateFrames == SeqsUpTo(GateDetections, MaxDet)

\* Mutant of AboveThreshold: the threshold itself passes.
AtOrAboveThreshold(conf, confidence_threshold) == conf >= confidence_threshold

\* Line 84.
AboveThreshold(conf, confidence_threshold) == conf > confidence_threshold

\* Lines 85-105: the dict built for box i of the detector output; src is the
\* index of the box in results (bookkeeping, not a field of the dict).
GateEntry(res, i) ==
  [confidence |-> res[i].conf,
   bounding_box |-> IntBox(res[i]),
   detection_type |-> IF res[i].cls = PERSON_CLASS THEN "person" ELSE "inflatable",
   yolo_class |-> res[i].cls,
   src |-> i]

RECURSIVE PassOne(_, _, _)
\* Lines 78-105, for the boxes from i on; kind is "person" or "inflatable".
PassOne(res, i, kind) ==
  IF i > Len(res) THEN <<>>
  ELSE LET rest == PassOne(res, i + 1, kind)
           keep == /\ AboveThreshold(res[i].conf, CONFIDENCE_THRESHOLD)
                   /\ IF kind = "person"
                      THEN res[i].cls = PERSON_CLASS
                      ELSE res[i].cls # PERSON_CLASS
                             /\ res[i].cls \in INFLATABLE_CLASSES
       IN  IF keep THEN <<GateEntry(res, i)>> \o rest ELSE rest

\* Lines 68-109: the detector runs and the boxes are split.
GateCall ==
  /\ gate_pc = "idle"
  /\ \E res \in GateFrames, client \in BOOLEAN :
        /\ results' = res
        /\ baseten_client' = client
        /\ detected_people' = PassOne(res, 1, "person")
        /\ potential_inflatables' = PassOne(res, 1, "inflatable")
  /\ gate_pc' = "validate"
  /\ gate_next' = 1
  /\ gate_log' = <<>>
  /\ UNCHANGED <<now, frame_count, detection_count, consecutive_detections,
                 last_capture_time, in_cooldown, people_detected, event,
                 episode_start_time, last_seen_time, present_run, frame_no,
                 legacy_vars, naming_vars, source_vars, save_vars, capture_vars>>

\* Lines 138-144: the dict of an accepted inflatable.
Validated(inflatable, out) ==
  [confidence |-> inflatable.confidence,
   bounding_box |-> inflatable.bounding_box,
   detection_type |-> inflatable.detection_type,
   yolo_class |-> inflatable.yolo_class,
   src |-> inflatable.src,
   costume_classification |-> out.label,
   costume_description |-> out.description,
   costume_confidence |-> out.confidence]

\* Mutant of GateValidate: the try statement is around the loop, so a
\* detection whose validation raises ends the loop.
GateValidateAbort ==
  /\ gate_pc = "validate"
  /\ baseten_client
  /\ gate_next <= Len(potential_inflatables)
  /\ \E out \in Outcomes :
        LET inflatable == potential_inflatables[gate_next]
        IN  /\ gate_log' = Append(gate_log, [src |-> inflatable.src, out |-> out])
            /\ detected_people' =
                 IF out.kind = "result" /\ IsValid(out.label, out.description)
                 THEN Append(detected_people, Validated(inflatable, out))
                 ELSE detected_people
            /\ gate_next' = IF out.kind = "raise"
                            THEN Len(potential_inflatables) + 1
                            ELSE gate_next + 1
  /\ UNCHANGED <<now, frame_count, detection_count, consecutive_detections,
                 last_capture_time, in_cooldown, results, people_detected,
                 event, episode_start_time, last_seen_time, present_run,
                 frame_no, baseten_client, potential_inflatables, gate_pc,
                 legacy_vars, naming_vars, source_vars, save_vars, capture_vars>>

\* Mutant of GateValidate: the loop does not ask whether a client was passed.
GateValidateNoClient ==
  /\ gate_pc = "validate"
  /\ gate_next <= Len(potential_inflatables)
  /\ \E out \in Outcomes :
        LET inflatable == potential_inflatables[gate_next]
        IN  /\ gate_log' = Append(gate_log, [src |-> inflatable.src, out |-> out])
            /\ detected_people' =
                 IF out.kind = "result" /\ IsValid(out.label, out.description)
                 THEN Append(detected_people, Validated(inflatable, out))
                 ELSE detected_people
  /\ gate_next' = gate_next + 1
  /\ UNCHANGED <<now, frame_count, detection_count, consecutive_detections,
                 last_capture_time, in_cooldown, results, people_detected,
                 event, episode_start_time, last_seen_time, present_run,
                 frame_no, baseten_client, potential_inflatables, gate_pc,
                 legacy_vars, naming_vars, source_vars, save_vars, capture_vars>>

\* Lines 116-150: one turn of the validation loop.
GateValidate ==
  /\ gate_pc = "validate"
  /\ baseten_client
  /\ gate_next <= Len(potential_inflatables)
  /\ \E out \in Outcomes :
        LET inflatable == potential_inflatables[gate_next]
        IN  /\ gate_log' = Append(gate_log, [src |-> inflatable.src, out |-> out])
            /\ detected_people' =
                 IF out.kind = "result" /\ IsValid(out.label, out.description)
                 THEN Append(detected_people, Validated(inflatable, out))
                 ELSE detected_people
  /\ gate_next' = gate_next + 1
  /\ UNCHANGED <<now, frame_count, detection_count, consecutive_detections,
                 last_capture_time, in_cooldown, results, people_detected,
                 event, episode_start_time, last_seen_time, present_run,
                 frame_no, baseten_client, potential_inflatables, gate_pc,
                 legacy_vars, naming_vars, source_vars, save_vars, capture_vars>>

\* Lines 112 and 152: the loop is over, or is not entered, and the list is
\* returned.
GateReturn ==
  /\ gate_pc = "validate"
  /\ ~baseten_client \/ gate_next > Len(potential_inflatables)
  /\ gate_pc' = "returned"
  /\ UNCHANGED <<main_vars, frame_no, baseten_client, potential_inflatables,
                 gate_next, gate_log, legacy_vars, naming_vars, source_vars, save_vars, capture_vars>>

GateNext == GateCall \/ GateValidate \/ GateReturn

GateSpec == Init /\ [][GateNext]_vars

\* ================================ main.py: the capture handler, 266-368
\* main_vars without detected_people, which the handler extends.
tracker_vars == <<now, frame_count, detection_count, consecutive_detections,
                  last_capture_time, in_cooldown, results, people_detected,
                  event, episode_start_time, last_seen_time, present_run>>

witch == <<"w", "i", "t", "c", "h">>

a_witch == <<"A", " ", "w", "i", "t", "c", "h">>

\* float(...) of a parsed confidence, as opposed to None
Num(v) == [t |-> "num", v |-> v]

\* What the try block of lines 280-310 can do: raise (an empty crop in
\* cv2.imencode), get (None, None, None), get a label, or get an answer whose
\* label is the empty string.
ClassifyOutcomes ==
  {out \in Outcomes :
     \/ out.kind = "raise"
     \/ out.label = None
     \/ /\ out.label \in {Str(witch), Str(<<>>)}
        /\ out.description = Str(a_witch)}

\* Lines 275-277 and 296-300: the three variables after the try block.  They
\* keep their None when the block raised, and take the tuple returned by
\* classify_costume otherwise.
ClassifierAnswer(out) ==
  IF out.kind = "raise" \/ out.label = None
  THEN [costume_classification |-> None,
        costume_confidence |-> None,
        costume_description |-> None]
  ELSE [costume_classification |-> out.label,
        costume_confidence |-> Num(out.confidence),
        costume_description |-> out.description]

\* Lines 313-315: the subject's dict with the three keys set.
Classified(subject, answer) ==
  [confidence |-> subject.confidence,
   bounding_box |-> subject.bounding_box,
   det |-> subject.det,
   costume_classification |-> answer.costume_classification,
   costume_description |-> answer.costume_description,
   costume_confidence |-> answer.costume_confidence]

\* person_region.size of line 330
RegionSize(bbox) ==
  LET h == IF bbox.y2 > bbox.y1 THEN bbox.y2 - bbox.y1 ELSE 0
      w == IF bbox.x2 > bbox.x1 THEN bbox.x2 - bbox.x1 ELSE 0
  IN  h * w

\* Lines 321-339 applied to a buffer: every subject with a non-empty region
\* is blurred and every subject's box is drawn.
Redact(image, people) ==
  [blur |-> image.blur \cup
              {people[j].det : j \in {k \in DOMAIN people :
                                        RegionSize(people[k].bounding_box) > 0}},
   boxes |-> image.boxes \cup {people[j].det : j \in DOMAIN people}]

\* The file written by capture number n, if it is on disk.
FilesOf(n) == {f \in disk : f.capture = n}

\* How a call of save_detection can end (supabase_client.py lines 153-176,
\* main.py line 359): it raises, or the upload gave a URL or not and the
\* insert gave a record or not.  The calls tried are a raise, a full
\* success, a record without image and a full failure.
StoreOutcomes ==
  {[kind |-> "raise"]} \cup
  {out \in [kind : {"returned"}, image_url : BOOLEAN, result : BOOLEAN] :
     out.image_url => out.result}

\* supabase_client.py lines 169-176: the value returned.
save_detection(out) == out.kind = "returned" /\ out.result

\* Lines 351-357: the keyword arguments of the call for one subject.
StoreRecord(subject) ==
  [confidence |-> subject.confidence,
   bounding_box |-> subject.bounding_box,
   costume_classification |-> subject.costume_classification,
   costume_description |-> subject.costume_description,
   costume_confidence |-> subject.costume_confidence]

CaptureDetections ==
  {[cls |-> PERSON_CLASS, conf |-> 90, xyxy |-> BoxIn],
   [cls |-> CAR_CLASS, conf |-> 90, xyxy |-> BoxIn]}

CaptureFrames == SeqsUpTo(CaptureDetections, MaxDet)

CaptureInit ==
  /\ now = StartTime
  /\ frame_count = 0
  /\ detection_count = 0
  /\ consecutive_detections = 0
  /\ last_capture_time = 0
  /\ in_cooldown = FALSE
  /\ results = <<>>
  /\ people_detected = FALSE
  /\ detected_people = <<>>
  /\ event = "start"
  /\ episode_start_time = 0
  /\ last_seen_time = 0
  /\ present_run = 0
  /\ frame_no = 0
  /\ baseten_client \in BOOLEAN
  /\ potential_inflatables = <<>>
  /\ gate_pc = "idle"
  /\ gate_next = 0
  /\ gate_log = <<>>
  /\ script = "main"
  /\ last_detection_time = 0
  /\ pc = "loop"
  /\ supabase_client \in BOOLEAN
  /\ person_idx = 0
  /\ frame = Raw
  /\ blurred_frame = NoImage
  /\ disk = {}
  /\ classify_log = <<>>
  /\ store_log = <<>>
  /\ detection_timestamp = NoTimestamp
  /\ filename = <<>>
  /\ storage_path = <<>>
  /\ device_id = unknown_device
  /\ named = <<>>
  /\ SourceInit
  /\ SaveIdle

\* A loop iteration that does not capture: the handler's locals of the
\* previous capture are dead.
NoHandler ==
  /\ pc = "loop"
  /\ pc' = "loop"
  /\ person_idx' = 0
  /\ frame' = Raw
  /\ blurred_frame' = NoImage
  /\ classify_log' = <<>>
  /\ store_log' = <<>>
  /\ UNCHANGED <<frame_no, gate_vars, legacy_vars, naming_vars, source_vars, save_vars, supabase_client, disk>>

LoopSkip == \E d \in Ticks : InHorizon(d) /\ SkipFrame(d) /\ NoHandler

LoopCooldown ==
  \E res \in CaptureFrames, d \in Ticks :
     InHorizon(d) /\ CooldownFrame(res, d) /\ NoHandler

LoopPresent ==
  \E res \in CaptureFrames, d \in Ticks :
     InHorizon(d) /\ PresentFrame(res, d) /\ NoHandler

LoopAbsent ==
  \E res \in CaptureFrames, d \in Ticks :
     InHorizon(d) /\ AbsentFrame(res, d) /\ NoHandler

\* Lines 185-186 and 375-382: model(frame) raises.  No handler of the try
\* statement matches, the finally clause runs and the script ends.
DetectorRaises ==
  /\ pc = "loop"
  /\ Sampled
  /\ \E d \in Ticks : InHorizon(d) /\ ReadClock(d)
  /\ frame_count' = (frame_count + 1) % FRAME_STRIDE
  /\ results' = <<>>
  /\ people_detected' = FALSE
  /\ detected_people' = <<>>
  /\ event' = "detector_error"
  /\ pc' = "terminated"
  /\ person_idx' = 0
  /\ frame' = Raw
  /\ blurred_frame' = NoImage
  /\ classify_log' = <<>>
  /\ store_log' = <<>>
  /\ UNCHANGED <<detection_count, consecutive_detections, last_capture_time,
                 in_cooldown, episode_start_time, last_seen_time, present_run,
                 frame_no, gate_vars, legacy_vars, naming_vars, source_vars, save_vars, supabase_client, disk>>

\* Lines 226-264: the capture is decided and the cooldown started.
LoopCapture ==
  /\ pc = "loop"
  /\ \E res \in CaptureFrames, d \in Ticks : InHorizon(d) /\ CaptureFrame(res, d)
  /\ pc' = "classify"
  /\ person_idx' = 1
  /\ frame' = Raw
  /\ blurred_frame' = NoImage
  /\ classify_log' = <<>>
  /\ store_log' = <<>>
  /\ UNCHANGED <<frame_no, gate_vars, legacy_vars, naming_vars, source_vars, save_vars, supabase_client, disk>>

\* Lines 267-315: one turn of the classification loop.
ClassifyPerson ==
  /\ pc = "classify"
  /\ person_idx <= Len(detected_people)
  /\ LET subject == detected_people[person_idx]
     IN  IF baseten_client
         THEN \E out \in ClassifyOutcomes :
                 /\ classify_log' =
                      Append(classify_log, [det |-> subject.det, crop |-> frame, out |-> out])
                 /\ detected_people' =
                      [detected_people EXCEPT
                         ![person_idx] = Classified(subject, ClassifierAnswer(out))]
         ELSE /\ classify_log' = classify_log
              /\ detected_people' =
                   [detected_people EXCEPT
                      ![person_idx] = Classified(subject, ClassifierAnswer([kind |-> "raise"]))]
  /\ person_idx' = person_idx + 1
  /\ UNCHANGED <<tracker_vars, frame_no, gate_vars, legacy_vars, naming_vars, source_vars, save_vars, pc,
                 supabase_client, frame, blurred_frame, disk, store_log>>

\* Mutant of SaveBlurred: a failed write gives the capture back, ending the
\* cooldown.
SaveBlurredRollback ==
  /\ pc = "classify"
  /\ person_idx > Len(detected_people)
  /\ blurred_frame' = Redact(frame, detected_people)
  /\ \E written \in BOOLEAN :
        /\ disk' = IF written
                   THEN (disk \ FilesOf(detection_count))
                          \cup {[capture |-> detection_count, image |-> blurred_frame']}
                   ELSE disk
        /\ in_cooldown' = written
  /\ pc' = "upload"
  /\ person_idx' = 1
  /\ UNCHANGED <<now, frame_count, detection_count, consecutive_detections,
                 last_capture_time, results, people_detected, detected_people,
                 event, episode_start_time, last_seen_time, present_run,
                 frame_no, gate_vars, legacy_vars, naming_vars, source_vars, save_vars, supabase_client,
                 frame, classify_log, store_log>>

\* Lines 317-344: the copy is blurred, the boxes are drawn on it and it is
\* written; cv2.imwrite returns False when it cannot write, and the value
\* is not looked at.
SaveBlurred ==
  /\ pc = "classify"
  /\ person_idx > Len(detected_people)
  /\ blurred_frame' = Redact(frame, detected_people)
  /\ \E written \in BOOLEAN :
        disk' = IF written
                THEN (disk \ FilesOf(detection_count))
                       \cup {[capture |-> detection_count, image |-> blurred_frame']}
                ELSE disk
  /\ pc' = "upload"
  /\ person_idx' = 1
  /\ UNCHANGED <<main_vars, frame_no, gate_vars, legacy_vars, naming_vars, source_vars, save_vars, supabase_client,
                 frame, classify_log, store_log>>

\* Mutant of UploadPerson: the try statement is around the loop, so a call
\* that raises ends the loop.
UploadPersonAbort ==
  /\ pc = "upload"
  /\ person_idx <= Len(detected_people)
  /\ IF supabase_client
     THEN \E out \in StoreOutcomes :
             /\ (out.kind = "returned" /\ out.image_url) => FilesOf(detection_count) # {}
             /\ store_log' =
                  Append(store_log,
                         [det |-> detected_people[person_idx].det,
                          record |-> StoreRecord(detected_people[person_idx]),
                          files |-> FilesOf(detection_count),
                          out |-> out])
             /\ person_idx' = IF out.kind = "raise"
                              THEN Len(detected_people) + 1
                              ELSE person_idx + 1
     ELSE store_log' = store_log /\ person_idx' = person_idx + 1
  /\ UNCHANGED <<main_vars, frame_no, gate_vars, legacy_vars, naming_vars, source_vars, save_vars, pc, supabase_client,
                 frame, blurred_frame, disk, classify_log>>

\* Lines 347-360: one turn of the upload loop.  The upload can give a URL
\* only if the file is there to be opened.
UploadPerson ==
  /\ pc = "upload"
  /\ person_idx <= Len(detected_people)
  /\ IF supabase_client
     THEN \E out \in StoreOutcomes :
             /\ (out.kind = "returned" /\ out.image_url) => FilesOf(detection_count) # {}
             /\ store_log' =
                  Append(store_log,
                         [det |-> detected_people[person_idx].det,
                          record |-> StoreRecord(detected_people[person_idx]),
                          files |-> FilesOf(detection_count),
                          out |-> out])
     ELSE store_log' = store_log
  /\ person_idx' = person_idx + 1
  /\ UNCHANGED <<main_vars, frame_no, gate_vars, legacy_vars, naming_vars, source_vars, save_vars, pc, supabase_client,
                 frame, blurred_frame, disk, classify_log>>

\* Mutant of Cleanup: the file is removed only when no save failed.
CleanupIfSaved ==
  /\ pc = "upload"
  /\ person_idx > Len(detected_people)
  /\ IF /\ supabase_client
        /\ FilesOf(detection_count) # {}
        /\ \A e \in DOMAIN store_log : save_detection(store_log[e].out)
     THEN \E removed \in BOOLEAN :
             disk' = IF removed THEN disk \ FilesOf(detection_count) ELSE disk
     ELSE disk' = disk
  /\ pc' = "loop"
  /\ UNCHANGED <<main_vars, frame_no, gate_vars, legacy_vars, naming_vars, source_vars, save_vars, supabase_client,
                 person_idx, frame, blurred_frame, classify_log, store_log>>

\* Lines 362-368: the local file is removed when a store client exists;
\* os.remove can raise, which is printed.
Cleanup ==
  /\ pc = "upload"
  /\ person_idx > Len(detected_people)
  /\ IF supabase_client /\ FilesOf(detection_count) # {}
     THEN \E removed \in BOOLEAN :
             disk' = IF removed THEN disk \ FilesOf(detection_count) ELSE disk
     ELSE disk' = disk
  /\ pc' = "loop"
  /\ UNCHANGED <<main_vars, frame_no, gate_vars, legacy_vars, naming_vars, source_vars, save_vars, supabase_client,
                 person_idx, frame, blurred_frame, classify_log, store_log>>

CaptureNext ==
  \/ LoopSkip \/ LoopCooldown \/ LoopPresent \/ LoopAbsent \/ DetectorRaises
  \/ LoopCapture \/ ClassifyPerson \/ SaveBlurred \/ UploadPerson \/ Cleanup

CaptureSpec == CaptureInit /\ [][CaptureNext]_vars

\* ============== main.py 279-310 with the classifier call as a remote call
\* baseten_client.py lines 109-125: session.post(self.model_url, json=...)
\* is called without a timeout argument, and the session sets none, so the
\* call waits until the service answers or the connection fails.  The call
\* is split here into the request (pc "waiting") and its return.
WaitFrames == {<<>>, <<[cls |-> PERSON_CLASS, conf |-> 90, xyxy |-> BoxIn]>>}

WaitSkip == LoopSkip /\ results' \in WaitFrames

WaitCooldown == LoopCooldown /\ results' \in WaitFrames

WaitPresent == LoopPresent /\ results' \in WaitFrames

WaitAbsent == LoopAbsent /\ results' \in WaitFrames

WaitCapture == LoopCapture /\ results' \in WaitFrames

\* Lines 279-300 up to the call: the crop is encoded and the request sent.
ClassifySend ==
  /\ pc = "classify"
  /\ person_idx <= Len(detected_people)
  /\ baseten_client
  /\ pc' = "waiting"
  /\ UNCHANGED <<main_vars, frame_no, gate_vars, legacy_vars, naming_vars, source_vars, save_vars,
                 supabase_client, person_idx, frame, blurred_frame, disk,
                 classify_log, store_log>>

\* baseten_client.py 127-179 and main.py 296-315: the service has answered
\* or the connection has failed, and the subject gets its three keys.
ClassifyReceive ==
  /\ pc = "waiting"
  /\ LET subject == detected_people[person_idx]
     IN  \E out \in ClassifyOutcomes :
            /\ classify_log' =
                 Append(classify_log, [det |-> subject.det, crop |-> frame, out |-> out])
            /\ detected_people' =
                 [detected_people EXCEPT
                    ![person_idx] = Classified(subject, ClassifierAnswer(out))]
  /\ person_idx' = person_idx + 1
  /\ pc' = "classify"
  /\ UNCHANGED <<tracker_vars, frame_no, gate_vars, legacy_vars, naming_vars, source_vars, save_vars,
                 supabase_client, frame, blurred_frame, disk, store_log>>

\* Line 279 without a client: the subject keeps its three None.
ClassifyNoClient == ClassifyPerson /\ ~baseten_client

\* The steps the script takes by itself; ClassifyReceive is the service's.
WaitProgram ==
  \/ WaitSkip \/ WaitCooldown \/ WaitPresent \/ WaitAbsent \/ WaitCapture
  \/ ClassifySend \/ ClassifyNoClient \/ SaveBlurred \/ UploadPerson \/ Cleanup

WaitNext == WaitProgram \/ ClassifyReceive

\* The script always takes its next step when it has one; nothing obliges
\* the service to answer.
WaitSpec == CaptureInit /\ [][WaitNext]_vars /\ WF_vars(WaitProgram)

\* ========== main.py 139-373 with a person at the door on every sampled frame
\* Frames keep being read, the clock keeps advancing while the horizon
\* allows, and every sampled frame has a qualifying person on it.
LiveFrames == {res \in CaptureFrames : PresenceVerdict(res)}

live_rest == <<frame_no, gate_vars, legacy_vars, capture_vars, naming_vars,
               source_vars, save_vars>>

LiveSkip ==
  \E d \in Ticks : InHorizon(d) /\ SkipFrame(d) /\ UNCHANGED live_rest

LiveCooldown ==
  \E res \in LiveFrames, d \in Ticks :
     InHorizon(d) /\ CooldownFrame(res, d) /\ UNCHANGED live_rest

LivePresent ==
  \E res \in LiveFrames, d \in Ticks :
     InHorizon(d) /\ PresentFrame(res, d) /\ UNCHANGED live_rest

LiveCapture ==
  \E res \in LiveFrames, d \in Ticks :
     InHorizon(d) /\ CaptureFrame(res, d) /\ UNCHANGED live_rest

LiveNext == LiveSkip \/ LiveCooldown \/ LivePresent \/ LiveCapture

\* The next frame is always read, and the clock does not stand still for
\* ever while it can still move.
LiveSpec ==
  /\ Init
  /\ [][LiveNext]_vars
  /\ WF_vars(LiveNext)
  /\ WF_vars(LiveNext /\ now' > now)

\* =================== main.py 138-183 and 375-382: the video source handle
\* The iteration is followed statement by statement up to the read, since a
\* KeyboardInterrupt can arrive between any two of them (the sleeps of lines
\* 156, 171 and 176 are where it is most likely to).  pc is "loop" at line
\* 140, "reconnecting" between lines 155 and 157, "read" at line 165,
\* "recovering" between lines 170 and 172, "exited" after line 381.  The
\* health check of lines 142-150 only prints.
\* The clock moves at line 140, by nothing or by just over the reconnect
\* interval, and during the sleep of line 171.
SourceTicks == {0, RECONNECT_INTERVAL + 1}

SourceMaxTime == MaxTime + MaxHours * (RECONNECT_INTERVAL + 1)

SourceInHorizon(d) == now + d <= SourceMaxTime

\* The object after cap.release().
Released == [opened |-> FALSE, released |-> TRUE]

\* open_handles after cap.release(): releasing twice is harmless.
AfterRelease == IF cap.released THEN open_handles ELSE open_handles - 1

\* Line 153.
ReconnectDue(t) == t - last_reconnect_time > RECONNECT_INTERVAL

source_rest == <<frame_no, gate_vars, legacy_vars, naming_vars, source_vars, save_vars,
                 supabase_client, person_idx, frame, blurred_frame, disk,
                 classify_log, store_log>>

\* Lines 140-153: the clock is read and no reconnection is due.
LoopTop ==
  /\ pc = "loop"
  /\ \E d \in SourceTicks :
        /\ SourceInHorizon(d)
        /\ now' = now + d
  /\ ~ReconnectDue(now')
  /\ pc' = "read"
  /\ UNCHANGED <<frame_count, detection_count, consecutive_detections,
                 last_capture_time, in_cooldown, results, people_detected,
                 detected_people, event, episode_start_time, last_seen_time,
                 present_run, source_rest>>

\* Mutant of PeriodicRelease: the periodic reconnection does not release the
\* handle it replaces.
PeriodicNoRelease ==
  /\ pc = "loop"
  /\ \E d \in SourceTicks :
        /\ SourceInHorizon(d)
        /\ now' = now + d
  /\ ReconnectDue(now')
  /\ pc' = "reconnecting"
  /\ UNCHANGED <<frame_count, detection_count, consecutive_detections,
                 last_capture_time, in_cooldown, results, people_detected,
                 detected_people, event, episode_start_time, last_seen_time,
                 present_run, frame_no, gate_vars, legacy_vars, naming_vars, source_vars, save_vars,
                 supabase_client, person_idx, frame, blurred_frame, disk,
                 classify_log, store_log>>

\* Lines 140-155: the clock is read, a reconnection is due and the handle is
\* released.
PeriodicRelease ==
  /\ pc = "loop"
  /\ \E d \in SourceTicks :
        /\ SourceInHorizon(d)
        /\ now' = now + d
  /\ ReconnectDue(now')
  /\ cap' = Released
  /\ open_handles' = AfterRelease
  /\ pc' = "reconnecting"
  /\ UNCHANGED <<frame_count, detection_count, consecutive_detections,
                 last_capture_time, in_cooldown, results, people_detected,
                 detected_people, event, episode_start_time, last_seen_time,
                 present_run, frame_no, gate_vars, legacy_vars, naming_vars, save_vars,
                 failed_frame_count, last_reconnect_time, periodic_count,
                 supabase_client, person_idx, frame, blurred_frame, disk,
                 classify_log, store_log>>

\* Lines 156-162: a new object is created, opened or not, and the timer
\* takes the clock reading of line 140.
PeriodicConnect ==
  /\ pc = "reconnecting"
  /\ \E opened \in BOOLEAN : cap' = Handle(opened)
  /\ open_handles' = open_handles + 1
  /\ last_reconnect_time' = now
  /\ periodic_count' = periodic_count + 1
  /\ pc' = "read"
  /\ UNCHANGED <<main_vars, frame_no, gate_vars, legacy_vars, naming_vars, save_vars,
                 failed_frame_count, supabase_client, person_idx, frame,
                 blurred_frame, disk, classify_log, store_log>>

\* Mutant of ReadFails: a failed read is taken for a frame without a person.
ReadFailsAsAbsent ==
  /\ pc = "read"
  /\ failed_frame_count < MaxFailures
  /\ failed_frame_count' = failed_frame_count + 1
  /\ cap' = Released
  /\ open_handles' = AfterRelease
  /\ consecutive_detections' = 0
  /\ pc' = "recovering"
  /\ UNCHANGED <<now, frame_count, detection_count,
                 last_capture_time, in_cooldown, results, people_detected,
                 detected_people, event, episode_start_time, last_seen_time,
                 present_run, frame_no, gate_vars, legacy_vars, naming_vars, save_vars,
                 last_reconnect_time, periodic_count, supabase_client,
                 person_idx, frame, blurred_frame, disk, classify_log,
                 store_log>>

\* Lines 165-170: cap.read() gives ret False, as it can on any handle and
\* must on one that is not open; the failure is counted and the handle
\* released.
ReadFails ==
  /\ pc = "read"
  /\ failed_frame_count < MaxFailures
  /\ failed_frame_count' = failed_frame_count + 1
  /\ cap' = Released
  /\ open_handles' = AfterRelease
  /\ pc' = "recovering"
  /\ UNCHANGED <<main_vars, frame_no, gate_vars, legacy_vars, naming_vars, save_vars,
                 last_reconnect_time, periodic_count, supabase_client,
                 person_idx, frame, blurred_frame, disk, classify_log,
                 store_log>>

\* Lines 171-177: after the sleep a new object is created, opened or not,
\* the timer takes a fresh clock reading and the loop continues.
Recover ==
  /\ pc = "recovering"
  /\ SourceInHorizon(TickStep)
  /\ now' = now + TickStep
  /\ \E opened \in BOOLEAN : cap' = Handle(opened)
  /\ open_handles' = open_handles + 1
  /\ last_reconnect_time' = now'
  /\ pc' = "loop"
  /\ UNCHANGED <<frame_count, detection_count, consecutive_detections,
                 last_capture_time, in_cooldown, results, people_detected,
                 detected_people, event, episode_start_time, last_seen_time,
                 present_run, frame_no, gate_vars, legacy_vars, naming_vars, save_vars,
                 failed_frame_count, periodic_count, supabase_client,
                 person_idx, frame, blurred_frame, disk, classify_log,
                 store_log>>

\* Lines 165-183 and on: cap.read() gives a frame, which only an open
\* handle can, and the iteration runs to its end.
ReadOk ==
  /\ pc = "read"
  /\ cap.opened
  /\ pc' = "loop"
  /\ UNCHANGED source_rest

SrcSkip == ReadOk /\ SkipFrame(0)

SrcCooldown == \E res \in WaitFrames : ReadOk /\ CooldownFrame(res, 0)

SrcPresent == \E res \in WaitFrames : ReadOk /\ PresentFrame(res, 0)

SrcCapture == \E res \in WaitFrames : ReadOk /\ CaptureFrame(res, 0)

SrcAbsent == \E res \in WaitFrames : ReadOk /\ AbsentFrame(res, 0)

\* Lines 375-382: a KeyboardInterrupt, wherever the loop is, is caught and
\* the finally clause releases whatever cap is bound to.
Interrupt ==
  /\ pc \in {"loop", "reconnecting", "read", "recovering"}
  /\ cap' = Released
  /\ open_handles' = AfterRelease
  /\ pc' = "exited"
  /\ UNCHANGED <<main_vars, frame_no, gate_vars, legacy_vars, naming_vars, save_vars,
                 failed_frame_count, last_reconnect_time, periodic_count,
                 supabase_client, person_idx, frame, blurred_frame, disk,
                 classify_log, store_log>>

SourceNext ==
  \/ LoopTop \/ PeriodicRelease \/ PeriodicConnect \/ ReadFails \/ Recover
  \/ SrcSkip \/ SrcCooldown \/ SrcPresent \/ SrcCapture \/ SrcAbsent
  \/ Interrupt

SourceSpec == Init /\ [][SourceNext]_vars

\* ================================= detect_people.py, person_detector.py
LegacyConfs == {30, 90}

LegacyDetections == [cls : {PERSON_CLASS, CAR_CLASS}, conf : LegacyConfs, xyxy : {BoxIn}]

LegacyFrames == SeqsUpTo(LegacyDetections, MaxDet)

LegacyInit ==
  /\ script \in {"detect_people", "person_detector"}
  /\ now = StartTime
  /\ frame_count = 0
  /\ detection_count = 0
  /\ consecutive_detections = 0
  /\ last_capture_time = 0
  /\ in_cooldown = FALSE
  /\ results = <<>>
  /\ people_detected = FALSE
  /\ detected_people = <<>>
  /\ event = "start"
  /\ episode_start_time = 0
  /\ last_seen_time = 0
  /\ present_run = 0
  /\ frame_no = 0
  /\ baseten_client \in (IF script = "detect_people" THEN BOOLEAN ELSE {FALSE})
  /\ potential_inflatables = <<>>
  /\ gate_pc = "idle"
  /\ gate_next = 0
  /\ gate_log = <<>>
  /\ last_detection_time = 0
  /\ pc = "loop"
  /\ supabase_client \in BOOLEAN
  /\ person_idx = 0
  /\ frame = Raw
  /\ blurred_frame = NoImage
  /\ disk = {}
  /\ classify_log = <<>>
  /\ store_log = <<>>
  /\ detection_timestamp = NoTimestamp
  /\ filename = <<>>
  /\ storage_path = <<>>
  /\ device_id = unknown_device
  /\ named = <<>>
  /\ SourceInit
  /\ SaveIdle

\* detect_people.py lines 99-105, person_detector.py lines 96-102:
\* people_detected is set for any box of the person class.
LegacyVerdict(res) == \E i \in DOMAIN res : res[i].cls = PERSON_CLASS

LegacyQualifies(box) ==
  box.cls = PERSON_CLASS /\ box.conf > LEGACY_CONFIDENCE_THRESHOLD

RECURSIVE LegacyCollectFrom(_, _)
\* detect_people.py lines 143-159.
LegacyCollectFrom(res, i) ==
  IF i > Len(res) THEN <<>>
  ELSE LET rest == LegacyCollectFrom(res, i + 1)
       IN  IF LegacyQualifies(res[i])
           THEN <<[confidence |-> res[i].conf,
                   bounding_box |-> IntBox(res[i]),
                   det |-> i]>> \o rest
           ELSE rest

RECURSIVE FirstBoxFrom(_, _, _, _)
\* person_detector.py lines 144-159: the box kept is the first one of the
\* highest confidence above the threshold; best is its index, 0 for None.
FirstBoxFrom(res, i, best, max_confidence) ==
  IF i > Len(res) THEN best
  ELSE IF LegacyQualifies(res[i]) /\ res[i].conf > max_confidence
       THEN FirstBoxFrom(res, i + 1, i, res[i].conf)
       ELSE FirstBoxFrom(res, i + 1, best, max_confidence)

\* The records handed to save_detection by the capture of either script.
LegacySubjects(res) ==
  IF script = "detect_people" THEN LegacyCollectFrom(res, 1)
  ELSE LET best == FirstBoxFrom(res, 1, 0, 0)
       IN  IF best = 0 THEN <<>>
           ELSE <<[confidence |-> res[best].conf,
                   bounding_box |-> IntBox(res[best]),
                   det |-> best]>>

LegacyUnchanged ==
  UNCHANGED <<consecutive_detections, last_capture_time, in_cooldown,
              episode_start_time, last_seen_time, present_run, frame_no,
              gate_vars, script, pc, supabase_client, person_idx,
              blurred_frame, naming_vars, source_vars, save_vars>>

\* detect_people.py lines 106-126, person_detector.py lines 103-123: the
\* box and the label of every person over the threshold are drawn on the
\* frame itself.
LegacyDrawn(res) ==
  [blur |-> {}, boxes |-> {i \in DOMAIN res : LegacyQualifies(res[i])}]

\* detect_people.py lines 178-199: the classifier calls of a capture, each
\* on a crop of the frame as it is by then.  What a call answers only goes
\* into the record of its subject.
LegacyClassifyLog(subjects, image) ==
  IF script = "detect_people" /\ baseten_client
  THEN [j \in DOMAIN subjects |-> [det |-> subjects[j].det, crop |-> image]]
  ELSE <<>>

\* detect_people.py lines 212-224, person_detector.py lines 162-171: the
\* save_detection calls of a capture, each given the path of the file just
\* written.
LegacyStoreLog(subjects, files) ==
  IF supabase_client
  THEN [j \in DOMAIN subjects |-> [det |-> subjects[j].det, files |-> files]]
  ELSE <<>>

\* detect_people.py lines 82-93, person_detector.py lines 79-90.
LegacySkipFrame(d) ==
  /\ ~Sampled
  /\ ReadClock(d)
  /\ frame_count' = (frame_count + 1) % FRAME_STRIDE
  /\ results' = <<>>
  /\ people_detected' = FALSE
  /\ detected_people' = <<>>
  /\ event' = "skip"
  /\ frame' = Raw
  /\ classify_log' = <<>>
  /\ store_log' = <<>>
  /\ UNCHANGED <<detection_count, last_detection_time, disk>>
  /\ LegacyUnchanged

\* detect_people.py lines 89-126, person_detector.py lines 86-123.
LegacyDetectFrame(res, d) ==
  /\ Sampled
  /\ ReadClock(d)
  /\ frame_count' = (frame_count + 1) % FRAME_STRIDE
  /\ results' = res
  /\ people_detected' = LegacyVerdict(res)
  /\ frame' = LegacyDrawn(res)
  /\ LegacyUnchanged

\* detect_people.py lines 129-227, person_detector.py lines 126-174.
LegacyCaptureFrame(res, d) ==
  /\ LegacyDetectFrame(res, d)
  /\ LegacyVerdict(res)
  /\ now' - last_detection_time > DUPLICATE_DETECTION_TIMEOUT_SECONDS
  /\ detection_count < MaxCaptures
  /\ detection_count' = detection_count + 1
  /\ \E written \in BOOLEAN :
        disk' = IF written
                THEN disk \cup {[capture |-> detection_count', image |-> frame']}
                ELSE disk
  /\ detected_people' = LegacySubjects(res)
  /\ classify_log' = LegacyClassifyLog(detected_people', frame')
  /\ store_log' = LegacyStoreLog(detected_people', {f \in disk' : f.capture = detection_count'})
  /\ last_detection_time' = now'
  /\ event' = "capture"

\* detect_people.py line 133, person_detector.py line 130: too soon after
\* the previous capture.
LegacyDuplicateFrame(res, d) ==
  /\ LegacyDetectFrame(res, d)
  /\ LegacyVerdict(res)
  /\ ~(now' - last_detection_time > DUPLICATE_DETECTION_TIMEOUT_SECONDS)
  /\ detected_people' = <<>>
  /\ event' = "duplicate"
  /\ classify_log' = <<>>
  /\ store_log' = <<>>
  /\ UNCHANGED <<detection_count, last_detection_time, disk>>

\* detect_people.py line 129, person_detector.py line 126: nobody seen.
LegacyAbsentFrame(res, d) ==
  /\ LegacyDetectFrame(res, d)
  /\ ~LegacyVerdict(res)
  /\ detected_people' = <<>>
  /\ event' = "absent"
  /\ classify_log' = <<>>
  /\ store_log' = <<>>
  /\ UNCHANGED <<detection_count, last_detection_time, disk>>

LegacySkip == \E d \in Ticks : InHorizon(d) /\ LegacySkipFrame(d)

LegacyCapture ==
  \E res \in LegacyFrames, d \in Ticks : InHorizon(d) /\ LegacyCaptureFrame(res, d)

LegacyDuplicate ==
  \E res \in LegacyFrames, d \in Ticks : InHorizon(d) /\ LegacyDuplicateFrame(res, d)

LegacyAbsent ==
  \E res \in LegacyFrames, d \in Ticks : InHorizon(d) /\ LegacyAbsentFrame(res, d)

LegacyNext == LegacySkip \/ LegacyCapture \/ LegacyDuplicate \/ LegacyAbsent

LegacySpec == LegacyInit /\ [][LegacyNext]_vars

\* ===================== names: main.py 231-233, supabase_client.py 51-54
Digits == <<"0", "1", "2", "3", "4", "5", "6", "7", "8", "9">>

\* %d, %m, %H, %M, %S: two digits, zero padded
Pad2(n) == <<Digits[((n \div 10) % 10) + 1], Digits[(n % 10) + 1]>>

\* %Y: four digits
Pad4(n) == Pad2(n \div 100) \o Pad2(n % 100)

\* strftime("%Y%m%d_%H%M%S")
strftime(ts) ==
  Pad4(ts.year) \o Pad2(ts.month) \o Pad2(ts.day) \o <<"_">>
    \o Pad2(ts.hour) \o Pad2(ts.minute) \o Pad2(ts.second)

dot_jpg == <<".", "j", "p", "g">>

detection_ == <<"d", "e", "t", "e", "c", "t", "i", "o", "n", "_">>

\* Mutant of DetectionFilename: the files are numbered, as with
\* f"detection_{detection_count}.jpg".
DetectionFilenameCounted(ts) ==
  detection_ \o Pad2(Len(named) + 1) \o dot_jpg

\* main.py lines 232-233: f"detection_{timestamp_str}.jpg"
DetectionFilename(ts) == detection_ \o strftime(ts) \o dot_jpg

\* supabase_client.py lines 53-54: f"{self.device_id}/{filename}"
StoragePath(device, ts) == device \o <<"/">> \o strftime(ts) \o dot_jpg

\* Values of datetime.now(...): two instants of the same second among them,
\* and seconds, days and months that differ.
Timestamps ==
  [year : {2025}, month : {10, 11}, day : {1, 31}, hour : {9}, minute : {5},
   second : {7, 59}, microsecond : {0, 999999}]

DeviceIds == {unknown_device, <<"d", "o", "o", "r", "-", "1">>}

NamingInit ==
  /\ now = StartTime
  /\ frame_count = 0
  /\ detection_count = 0
  /\ consecutive_detections = 0
  /\ last_capture_time = 0
  /\ in_cooldown = FALSE
  /\ results = <<>>
  /\ people_detected = FALSE
  /\ detected_people = <<>>
  /\ event = "start"
  /\ episode_start_time = 0
  /\ last_seen_time = 0
  /\ present_run = 0
  /\ frame_no = 0
  /\ baseten_client = FALSE
  /\ potential_inflatables = <<>>
  /\ gate_pc = "idle"
  /\ gate_next = 0
  /\ gate_log = <<>>
  /\ script = "main"
  /\ last_detection_time = 0
  /\ pc = "loop"
  /\ supabase_client = TRUE
  /\ person_idx = 0
  /\ frame = Raw
  /\ blurred_frame = NoImage
  /\ disk = {}
  /\ classify_log = <<>>
  /\ store_log = <<>>
  /\ detection_timestamp = NoTimestamp
  /\ filename = <<>>
  /\ storage_path = <<>>
  /\ device_id \in DeviceIds
  /\ named = <<>>
  /\ SourceInit
  /\ SaveIdle

\* main.py lines 231-233: a capture takes its timestamp and names its file.
NameCapture ==
  /\ filename = <<>>
  /\ Len(named) < MaxNamed
  /\ \E ts \in Timestamps :
        /\ detection_timestamp' = ts
        /\ filename' = DetectionFilename(ts)
  /\ storage_path' = <<>>
  /\ UNCHANGED <<main_vars, frame_no, gate_vars, legacy_vars, capture_vars,
                 source_vars, save_vars, device_id, named>>

\* supabase_client.py lines 51-54: the upload of that capture names its
\* object in the bucket.
NameUpload ==
  /\ filename # <<>>
  /\ storage_path' = StoragePath(device_id, detection_timestamp)
  /\ named' = Append(named, [timestamp |-> detection_timestamp,
                             filename |-> filename,
                             storage_path |-> storage_path'])
  /\ filename' = <<>>
  /\ UNCHANGED <<main_vars, frame_no, gate_vars, legacy_vars, capture_vars,
                 source_vars, save_vars, detection_timestamp, device_id>>

NamingNext == NameCapture \/ NameUpload

NamingSpec == NamingInit /\ [][NamingNext]_vars

\* ========================= supabase_client.py 38-176: save_detection
\* One call is followed through its three parts.  The storage bucket and the
\* table are remote: an upload or an insert can fail whatever is sent.
Pad6(n) == Pad2(n \div 10000) \o Pad2((n \div 100) % 100) \o Pad2(n % 100)

\* datetime.isoformat() of an aware datetime in America/Los_Angeles during
\* daylight saving time; the fraction is left out when it is zero.
Isoformat(ts) ==
  Pad4(ts.year) \o <<"-">> \o Pad2(ts.month) \o <<"-">> \o Pad2(ts.day) \o <<"T">>
    \o Pad2(ts.hour) \o <<":">> \o Pad2(ts.minute) \o <<":">> \o Pad2(ts.second)
    \o (IF ts.microsecond = 0 THEN <<>> ELSE <<".">> \o Pad6(ts.microsecond))
    \o <<"-", "0", "7", ":", "0", "0">>

\* The arguments main.py and detect_people.py pass: whether the file at
\* image_path can be opened, the capture's timestamp (dates that exist, all
\* before the end of daylight saving time), one subject, and a label and a
\* confidence that are a value, empty or zero, or None.
SaveArgs ==
  [image_exists : BOOLEAN,
   timestamp : {ts \in Timestamps : ts.month = 10 \/ ts.day = 1},
   confidence : {90},
   bounding_box : {IntBox([xyxy |-> BoxIn])},
   costume_classification : {None, Str(<<>>), Str(witch)},
   costume_confidence : {None, Num(0), Num(95)}]

\* Lines 153-154: save_detection is entered.
SaveCall ==
  /\ save_pc \in {"idle", "done"}
  /\ \E args \in SaveArgs : save_args' = args
  /\ save_pc' = "upload"
  /\ image_url' = None
  /\ insert_log' = <<>>
  /\ save_return' = "none"
  /\ UNCHANGED <<main_vars, frame_no, gate_vars, legacy_vars, capture_vars,
                 naming_vars, source_vars>>

\* Lines 50-76, upload_detection_image: open() raises when the file is not
\* there and the upload can raise; either way the except clause gives None.
\* Otherwise the public URL of the object, which ends in its storage path.
SaveUpload ==
  /\ save_pc = "upload"
  /\ \E uploaded \in BOOLEAN :
        image_url' = IF save_args.image_exists /\ uploaded
                     THEN Str(StoragePath(device_id, save_args.timestamp))
                     ELSE None
  /\ save_pc' = "insert"
  /\ UNCHANGED <<main_vars, frame_no, gate_vars, legacy_vars, capture_vars,
                 naming_vars, source_vars, save_args, insert_log, save_return>>

\* Lines 100-114: the row, with the optional keys that are set.
InsertData(args, url) ==
  [k \in {"timestamp", "confidence", "bounding_box", "device_id"}
         \cup (IF Truthy(url) THEN {"image_url"} ELSE {})
         \cup (IF Truthy(args.costume_classification)
               THEN {"costume_classification"} ELSE {})
         \cup (IF args.costume_confidence # None
               THEN {"costume_confidence"} ELSE {}) |->
     CASE k = "timestamp" -> Str(Isoformat(args.timestamp))
       [] k = "confidence" -> Num(args.confidence)
       [] k = "bounding_box" -> args.bounding_box
       [] k = "device_id" -> Str(device_id)
       [] k = "image_url" -> url
       [] k = "costume_classification" -> args.costume_classification
       [] k = "costume_confidence" -> args.costume_confidence]

\* What insert(data).execute() can do: raise, answer without rows, or answer
\* with the stored row, which carries the id the table gave it.
InsertOutcomes == {"raise", "empty", "record"}

\* Mutant of SaveInsert: no row is inserted for a detection whose image
\* could not be uploaded.
SaveInsertNeedsImage ==
  /\ save_pc = "insert"
  /\ IF Truthy(image_url)
     THEN \E out \in InsertOutcomes :
             insert_log' = Append(insert_log,
                                  [data |-> InsertData(save_args, image_url),
                                   out |-> out])
     ELSE insert_log' = insert_log
  /\ save_pc' = "return"
  /\ UNCHANGED <<main_vars, frame_no, gate_vars, legacy_vars, capture_vars,
                 naming_vars, source_vars, save_args, image_url, save_return>>

\* Lines 156-167 and 99-128, insert_detection: the row is built and handed
\* to the table; the except clause turns a raise into None.
SaveInsert ==
  /\ save_pc = "insert"
  /\ \E out \in InsertOutcomes :
        insert_log' = Append(insert_log,
                             [data |-> InsertData(save_args, image_url),
                              out |-> out])
  /\ save_pc' = "return"
  /\ UNCHANGED <<main_vars, frame_no, gate_vars, legacy_vars, capture_vars,
                 naming_vars, source_vars, save_args, image_url, save_return>>

\* result of line 160: the row, or None.
InsertResult == insert_log # <<>> /\ insert_log[Len(insert_log)].out = "record"

\* Lines 169-176: True when insert_detection gave a row.
SaveReturn ==
  /\ save_pc = "return"
  /\ save_return' = InsertResult
  /\ save_pc' = "done"
  /\ UNCHANGED <<main_vars, frame_no, gate_vars, legacy_vars, capture_vars,
                 naming_vars, source_vars, save_args, image_url, insert_log>>

SaveNext == SaveCall \/ SaveUpload \/ SaveInsert \/ SaveReturn

SaveSpec == Init /\ [][SaveNext]_vars

\* ================================================================= claims

\* C1: a capture that is not the first one fires no earlier than
\* CAPTURE_COOLDOWN seconds after the previous capture.
CooldownExclusive ==
  [][(event' = "capture" /\ detection_count > 0)
       => now' - last_capture_time >= CAPTURE_COOLDOWN]_vars

\* A second capture has fired.
SecondCapture == event = "capture" /\ detection_count = 2

SubjectsOfCurrentFrame ==
  /\ \A i \in DOMAIN results :
        Qualifies(results[i]) =>
          \E j \in DOMAIN detected_people : detected_people[j].det = i
  /\ \A j \in DOMAIN detected_people :
        LET p == detected_people[j]
        IN  /\ p.det \in DOMAIN results
            /\ results[p.det].cls = PERSON_CLASS
            /\ p.confidence = results[p.det].conf
            /\ p.confidence > CONFIDENCE_THRESHOLD
            /\ p.bounding_box.x1 * Sub <= results[p.det].xyxy[1]
            /\ results[p.det].xyxy[1] < (p.bounding_box.x1 + 1) * Sub
            /\ p.bounding_box.x2 * Sub <= results[p.det].xyxy[3]
            /\ results[p.det].xyxy[3] < (p.bounding_box.x2 + 1) * Sub
  /\ \A j, k \in DOMAIN detected_people :
        j < k => detected_people[j].det < detected_people[k].det

RoiFiltering ==
  /\ people_detected =>
       \E i \in DOMAIN results :
          is_in_roi(results[i].xyxy, FrameWidth, FrameHeight)
  /\ \A j \in DOMAIN detected_people :
       is_in_roi(results[detected_people[j].det].xyxy, FrameWidth, FrameHeight)

\* C8: the subjects of a capture are exactly the qualifying detections of
\* the frame on which it fires, and subjects exist only on a capture.
SubjectsAreQualifying ==
  /\ event = "capture" =>
       {detected_people[j].det : j \in DOMAIN detected_people}
         = {i \in DOMAIN results : Qualifies(results[i])}
  /\ detected_people # <<>> => event = "capture"

\* C9 as stated: a present frame on which the cooldown is found expired is
\* evaluated as IDLE would and starts the next counted run.
ExpiryReevaluates ==
  [][(event' = "expired" /\ people_detected')
       => consecutive_detections' = 1]_vars

\* C9 amended: a sampled frame in cooldown ends the cooldown exactly when
\* CAPTURE_COOLDOWN seconds have passed since the capture, and that frame's
\* presence verdict is discarded: the count stays zero and nothing is
\* captured, so a person present at expiry is first counted on the next
\* sampled frame.
ExpiryDiscardsFrame ==
  [][/\ (in_cooldown /\ event' # "skip")
          => /\ event' \in {"expired", "cooldown"}
             /\ in_cooldown' = (now' - last_capture_time < CAPTURE_COOLDOWN)
             /\ event' = "expired" <=> ~in_cooldown'
     /\ event' = "expired"
          => /\ consecutive_detections' = 0
             /\ episode_start_time' = 0
             /\ detection_count' = detection_count
     /\ (event' = "present" /\ ~in_cooldown /\ consecutive_detections = 0)
          => consecutive_detections' = 1]_vars

\* The cooldown has just expired on a frame with a qualifying person, and
\* the person was not counted.
ExpiredOnPresentFrame ==
  /\ event = "expired"
  /\ people_detected
  /\ consecutive_detections = 0
  /\ ~in_cooldown

\* The capture handler has just run to its end.
HandlerDone == pc = "loop" /\ event = "capture"

\* C11: when a save_detection call of the capture failed (returned False or
\* raised) while the local image was there, the image is still on disk after
\* the handler; and the image is removed only after some call succeeded.
CleanupOnlyAfterHandOff ==
  HandlerDone =>
    /\ (\E e \in DOMAIN store_log :
           store_log[e].files # {} /\ ~save_detection(store_log[e].out))
         => FilesOf(detection_count) # {}
    /\ (\E e \in DOMAIN store_log :
           store_log[e].files # {} /\ FilesOf(detection_count) = {})
         => \E e \in DOMAIN store_log : save_detection(store_log[e].out)

\* C12: with a store client, save_detection is called once for each subject
\* of the capture, in subject order, whatever the earlier classifier and
\* store calls did; without one it is never called.
OneSavePerSubject ==
  /\ pc = "upload" =>
       Len(store_log) = (IF supabase_client THEN person_idx - 1 ELSE 0)
  /\ HandlerDone =>
       Len(store_log) = (IF supabase_client THEN Len(detected_people) ELSE 0)
  /\ \A e \in DOMAIN store_log :
       /\ store_log[e].det = detected_people[e].det
       /\ store_log[e].record = StoreRecord(detected_people[e])

\* Two subjects were both handed to the store although the first one's
\* classification raised and its save raised too.
SaveAfterFailures ==
  /\ HandlerDone
  /\ Len(store_log) = 2
  /\ Len(classify_log) = 2
  /\ classify_log[1].out.kind = "raise"
  /\ store_log[1].out.kind = "raise"

\* The classifier call for a subject failed: it raised or gave no label.
ClassifierFailed(out) == out.kind = "raise" \/ ~Truthy(out.label)

\* C13: a subject whose classifier call failed is submitted with label,
\* description and confidence all null, and the calls for the other subjects
\* are still made.
FailedClassificationIsNull ==
  /\ \A e \in DOMAIN store_log :
       \A c \in DOMAIN classify_log :
          (classify_log[c].det = store_log[e].det
             /\ ClassifierFailed(classify_log[c].out))
            => /\ store_log[e].record.costume_classification = None
               /\ store_log[e].record.costume_description = None
               /\ store_log[e].record.costume_confidence = None
  /\ (HandlerDone /\ baseten_client) => Len(classify_log) = Len(detected_people)
  /\ (HandlerDone /\ supabase_client) => Len(store_log) = Len(detected_people)

\* C14: a sampled frame on which the detector raises captures nothing and
\* leaves the loop running.
DetectorFailureIsNoDetection ==
  [][event' = "detector_error"
       => (pc' = "loop" /\ detection_count' = detection_count)]_vars

\* C15: while the handler classifies, writes and uploads, the cooldown is
\* already in force with the capture's clock reading and a cleared counter,
\* no step of the handler changes it, and the next capture comes no earlier
\* than CAPTURE_COOLDOWN seconds after this one whatever failed in between.
CooldownCommitted ==
  [][/\ pc' \in {"classify", "upload"}
          => /\ in_cooldown'
             /\ last_capture_time' = now'
             /\ consecutive_detections' = 0
     /\ pc \in {"classify", "upload"}
          => /\ in_cooldown'
             /\ last_capture_time' = last_capture_time
             /\ consecutive_detections' = 0
     /\ (pc = "loop" /\ pc' = "classify" /\ detection_count > 0)
          => now' - last_capture_time >= CAPTURE_COOLDOWN]_vars

\* A second capture has fired although the first one's image was never
\* written (no store client exists, so nothing removes a written image).
CaptureAfterFailedWrite ==
  /\ detection_count = 2
  /\ pc = "classify"
  /\ ~supabase_client
  /\ FilesOf(1) = {}


\* a equals b ignoring case
EqualsIgnoreCase(a, b) ==
  /\ Len(a) = Len(b)
  /\ \A i \in DOMAIN a : LowerChar(a[i]) = LowerChar(b[i])

\* hay contains needle ignoring case
ContainsIgnoreCase(hay, needle) ==
  \E i \in 1..(Len(hay) - Len(needle) + 1) :
     \A k \in 1..Len(needle) : LowerChar(hay[i + k - 1]) = LowerChar(needle[k])

\* The acceptance rule in the words of the design document.
RuleAccepts(out) ==
  /\ out.kind = "result"
  /\ out.label # None
  /\ out.label.v # <<>>
  /\ ~(/\ EqualsIgnoreCase(out.label.v, person)
       /\ out.description # None
       /\ ContainsIgnoreCase(out.description.v, no_costume))

InResult(src) == \E j \in DOMAIN detected_people : detected_people[j].src = src

\* C6: when the gate has returned, an ambiguous detection is in the result
\* exactly if the classifier was called for it, returned a non-empty label,
\* and did not answer "person" with a description containing "no costume"
\* (both ignoring case).
GateAcceptance ==
  gate_pc = "returned" =>
    \A k \in DOMAIN potential_inflatables :
       InResult(potential_inflatables[k].src)
         <=> \E e \in DOMAIN gate_log :
                /\ gate_log[e].src = potential_inflatables[k].src
                /\ RuleAccepts(gate_log[e].out)

\* The gate returned after rejecting a "Person" / "No costume visible"
\* answer and accepting a "witch".
GateRejectsAndAccepts ==
  /\ gate_pc = "returned"
  /\ \E e \in DOMAIN gate_log :
        /\ gate_log[e].out.kind = "result"
        /\ gate_log[e].out.label = Str(<<"P", "e", "r", "s", "o", "n">>)
        /\ gate_log[e].out.description # None
        /\ ~InResult(gate_log[e].src)
  /\ \E e \in DOMAIN gate_log :
        /\ gate_log[e].out.kind = "result"
        /\ gate_log[e].out.label = Str(<<"w", "i", "t", "c", "h">>)
        /\ InResult(gate_log[e].src)

\* C7: the returned list holds every person-class box above the threshold,
\* none of which was sent to the classifier, and besides them exactly the
\* accepted ambiguous boxes, each with the label, description and confidence
\* of its own classifier call.
GateResult ==
  gate_pc = "returned" =>
    /\ \A i \in DOMAIN results :
          (results[i].cls = PERSON_CLASS /\ results[i].conf > CONFIDENCE_THRESHOLD)
            => /\ InResult(i)
               /\ \A e \in DOMAIN gate_log : gate_log[e].src # i
    /\ \A j \in DOMAIN detected_people :
          LET p == detected_people[j]
          IN  /\ p.src \in DOMAIN results
              /\ p.confidence = results[p.src].conf
              /\ p.confidence > CONFIDENCE_THRESHOLD
              /\ p.yolo_class = results[p.src].cls
              /\ \A k \in DOMAIN detected_people :
                    detected_people[k].src = p.src => k = j
              /\ \/ /\ p.yolo_class = PERSON_CLASS
                    /\ p.detection_type = "person"
                    /\ DOMAIN p = {"confidence", "bounding_box",
                                   "detection_type", "yolo_class", "src"}
                 \/ /\ p.yolo_class \in INFLATABLE_CLASSES
                    /\ p.detection_type = "inflatable"
                    /\ \E e \in DOMAIN gate_log :
                          /\ gate_log[e].src = p.src
                          /\ RuleAccepts(gate_log[e].out)
                          /\ p.costume_classification = gate_log[e].out.label
                          /\ p.costume_description = gate_log[e].out.description
                          /\ p.costume_confidence = gate_log[e].out.confidence
    /\ \A e \in DOMAIN gate_log :
          ~RuleAccepts(gate_log[e].out) => ~InResult(gate_log[e].src)

\* The gate returned a person next to an accepted inflatable that carries
\* the classifier's answer.
GatePersonAndInflatable ==
  /\ gate_pc = "returned"
  /\ \E j, k \in DOMAIN detected_people :
        /\ detected_people[j].detection_type = "person"
        /\ detected_people[k].detection_type = "inflatable"
        /\ detected_people[k].costume_classification = Str(<<"w", "i", "t", "c", "h">>)

\* C10: in the earlier loops too, the presence verdict is true only if some
\* person-class box is above the confidence threshold, and every subject of
\* a capture is above it.
ConfidenceFiltering ==
  LET threshold == IF script = "main" THEN CONFIDENCE_THRESHOLD
                   ELSE LEGACY_CONFIDENCE_THRESHOLD
  IN  /\ people_detected =>
           \E i \in DOMAIN results :
              results[i].cls = PERSON_CLASS /\ results[i].conf > threshold
      /\ \A j \in DOMAIN detected_people :
           detected_people[j].confidence > threshold

\* C16: every image file of the capture at hand, on disk or given to the
\* store, has every subject of the capture blurred and is not the frame
\* buffer itself, and the frame buffer is never blurred.
OnlyRedactedLeaves ==
  LET Redacted(image) ==
        \A j \in DOMAIN detected_people : detected_people[j].det \in image.blur
  IN  /\ \A f \in FilesOf(detection_count) :
             detected_people # <<>> => (Redacted(f.image) /\ f.image # frame)
      /\ \A e \in DOMAIN store_log :
             \A f \in store_log[e].files : Redacted(f.image) /\ f.image # frame
      /\ frame.blur = {}

\* C17: every crop sent to the classifier is cut from pixels as read from
\* the source, with nothing blurred and nothing drawn.
ClassifyOnSourcePixels ==
  \A e \in DOMAIN classify_log : classify_log[e].crop = Raw

\* C18: a classifier call that raises or returns no label rejects its own
\* detection and nothing else: the loop goes on to the next ambiguous
\* detection, every ambiguous detection gets its call, each is accepted or
\* rejected by its own answer alone, the persons found in the first pass
\* stay in the result, and the function returns.
GateFailureIsolated ==
  [][/\ (gate_pc = "validate" /\ Len(gate_log') = Len(gate_log) + 1
           /\ ClassifierFailed(gate_log'[Len(gate_log')].out))
          => /\ detected_people' = detected_people
             /\ gate_next' = gate_next + 1
             /\ gate_pc' = "validate"
     /\ gate_pc' = "returned"
          => /\ baseten_client' =>
                  /\ Len(gate_log') = Len(potential_inflatables')
                  /\ \A k \in DOMAIN gate_log' :
                        /\ gate_log'[k].src = potential_inflatables'[k].src
                        /\ (\E j \in DOMAIN detected_people' :
                               detected_people'[j].src = gate_log'[k].src)
                             <=> RuleAccepts(gate_log'[k].out)
             /\ \A i \in DOMAIN results' :
                   (results'[i].cls = PERSON_CLASS
                      /\ results'[i].conf > CONFIDENCE_THRESHOLD)
                     => \E j \in DOMAIN detected_people' :
                           detected_people'[j].src = i]_vars

\* The gate returned an accepted ambiguous detection whose call came after
\* a call that raised.
GateAcceptsAfterFailure ==
  /\ gate_pc = "returned"
  /\ Len(gate_log) = 2
  /\ gate_log[1].out.kind = "raise"
  /\ ~InResult(gate_log[1].src)
  /\ RuleAccepts(gate_log[2].out)
  /\ InResult(gate_log[2].src)

ConsecutiveCountRule ==
  [][/\ event' = "capture"
          => /\ frame_count' = 0
             /\ ~in_cooldown
             /\ people_detected'
             /\ consecutive_detections = CONSECUTIVE_FRAMES_REQUIRED - 1
             /\ detection_count' = detection_count + 1
     /\ event' # "capture" => detection_count' = detection_count
     /\ frame_count' # 0
          => /\ event' = "skip"
             /\ consecutive_detections' = consecutive_detections
             /\ in_cooldown' = in_cooldown
     /\ (frame_count' = 0 /\ (in_cooldown \/ ~people_detected'))
          => consecutive_detections' = 0
     /\ (frame_count' = 0 /\ ~in_cooldown /\ people_detected')
          => IF consecutive_detections + 1 >= CONSECUTIVE_FRAMES_REQUIRED
             THEN event' = "capture" /\ consecutive_detections' = 0
             ELSE consecutive_detections' = consecutive_detections + 1]_vars

\* The first capture fired after an earlier sampled frame without a person
\* had reset the count.
CaptureAfterReset ==
  /\ event = "capture"
  /\ detection_count = 1
  /\ present_run = -1

\* ------------------------------------------------------------------- C21
\* The phase of the tracker as main.py holds it: in_cooldown is COOLDOWN, a
\* positive counter is DWELLING, anything else is IDLE.
Phase ==
  IF in_cooldown THEN "COOLDOWN"
  ELSE IF consecutive_detections > 0 THEN "DWELLING" ELSE "IDLE"

\* C21: at every loop-iteration boundary the counter is at least 0 and below
\* CONSECUTIVE_FRAMES_REQUIRED, in_cooldown implies a counter of 0, the run
\* being counted has a start exactly in DWELLING, and the cooldown has a
\* capture time to be measured from.
PhaseInvariant ==
  /\ consecutive_detections >= 0
  /\ consecutive_detections < CONSECUTIVE_FRAMES_REQUIRED
  /\ in_cooldown => consecutive_detections = 0
  /\ (episode_start_time # 0) <=> (Phase = "DWELLING")
  /\ in_cooldown => (last_capture_time >= StartTime /\ detection_count > 0)

\* Witness of C21: the capture has just moved the tracker from DWELLING, one
\* frame short of the required number, to COOLDOWN.
CooldownAfterDwelling ==
  /\ event = "capture"
  /\ Phase = "COOLDOWN"
  /\ consecutive_detections = 0
  /\ present_run >= CONSECUTIVE_FRAMES_REQUIRED

\* ------------------------------------------------------------------- C22
\* C22: the list returned by detect_people_and_costumes is in detector
\* emission order: of two returned detections, the one that comes first in
\* results comes first in the list.
EmissionOrder ==
  gate_pc = "returned" =>
    \A i, j \in DOMAIN detected_people :
       i < j => detected_people[i].src < detected_people[j].src

\* ------------------------------------------------------------------- C23
\* C23: when the write of the redacted image failed (no file of this capture
\* is on disk when the upload loop runs), the upload loop submits nothing:
\* no save_detection call is made for any subject of the capture.
FailedWriteSkipsFanOut ==
  (pc = "upload" /\ FilesOf(detection_count) = {}) => store_log = <<>>

\* ------------------------------------------------------------------- C24
\* C24: every classifier call made during a capture returns, with a result
\* or a failure, even if the service never answers: a handler waiting for
\* the call eventually stops waiting.
ClassifierCallReturns == (pc = "waiting") ~> (pc # "waiting")

\* ------------------------------------------------------------------- C25
\* C25: a failed frame read is dealt with inside the read step.  The step
\* that finds ret False counts the failure and releases the handle, the step
\* after it binds cap to a new object, restarts the reconnect timer and goes
\* back to the top of the loop; neither touches frame_count,
\* consecutive_detections, in_cooldown, last_capture_time or the other
\* tracker variables, and neither leaves the loop.
ReadFailureContained ==
  [][/\ (pc = "read" /\ pc' # "loop" /\ pc' # "exited") =>
          /\ pc' = "recovering"
          /\ failed_frame_count' = failed_frame_count + 1
          /\ cap'.released
          /\ UNCHANGED <<frame_count, detection_count, consecutive_detections,
                         last_capture_time, in_cooldown, detected_people,
                         last_reconnect_time>>
     /\ (pc = "recovering" /\ pc' # "exited") =>
          /\ pc' = "loop"
          /\ ~cap'.released
          /\ last_reconnect_time' = now'
          /\ UNCHANGED <<frame_count, detection_count, consecutive_detections,
                         last_capture_time, in_cooldown, detected_people,
                         failed_frame_count>>]_vars

\* Witness of C25: a second failed read is being recovered from while the
\* tracker is one frame into a counted run.
FailedReadMidRun ==
  /\ pc = "recovering"
  /\ failed_frame_count >= 2
  /\ consecutive_detections = 1

\* ------------------------------------------------------------------- C26
\* C26: at every point of the loop at most one VideoCapture object is
\* unreleased, and none is once the script has left the loop.
AtMostOneHandle ==
  /\ open_handles \in {0, 1}
  /\ pc = "exited" => open_handles = 0

\* Witness of C26: the script has exited after a periodic reconnection and
\* a read-failure reconnection.
ExitedAfterReconnects ==
  /\ pc = "exited"
  /\ periodic_count >= 1
  /\ failed_frame_count >= 1
  /\ open_handles = 0

\* ------------------------------------------------------------------- C27
\* C27: a finished call of save_detection has handed exactly one row to the
\* table, a row without an image_url key when the upload gave no URL; it has
\* not raised; and it has returned True exactly when the insert gave back a
\* record.
SaveAlwaysInserts ==
  save_pc = "done" =>
    /\ Len(insert_log) = 1
    /\ ("image_url" \in DOMAIN insert_log[1].data) <=> (image_url # None)
    /\ save_return \in BOOLEAN
    /\ save_return <=> (insert_log[1].out = "record")

\* Witness of C27: the image could not be uploaded, the row went in
\* without a URL and the call returned True.
SavedWithoutImage ==
  /\ save_pc = "done"
  /\ image_url = None
  /\ Len(insert_log) = 1
  /\ insert_log[1].out = "record"
  /\ save_return = TRUE

\* ------------------------------------------------------------------- C28
\* A capture has at least one subject.
SubjectsNonEmpty == event = "capture" => detected_people # <<>>

\* C28: a capture has at least one subject, the detections collected as its
\* subjects being the very detections that make the presence verdict true.
VerdictAndSubjectsAgree ==
  /\ SubjectsNonEmpty
  /\ event = "capture" =>
       \A i \in DOMAIN results :
          Qualifies(results[i]) <=>
            (\E j \in DOMAIN detected_people : detected_people[j].det = i)

\* ------------------------------------------------------------------- C29
\* A capture from which the clock can still run past the cooldown.
CooldownCanExpire ==
  /\ in_cooldown
  /\ last_capture_time + CAPTURE_COOLDOWN + TickStep <= MaxTime

\* C29: with a qualifying person on every sampled frame and an advancing
\* clock, the loop eventually leaves the cooldown a capture started, and
\* eventually captures again.
CooldownNeverLocks ==
  /\ CooldownCanExpire ~> ~in_cooldown
  /\ \A n \in 1..MaxCaptures :
        (CooldownCanExpire /\ detection_count = n)
           ~> (event = "capture" /\ detection_count = n + 1)

\* Witness of C29: the second capture, a full cooldown after the first, in
\* a run with a person on every sampled frame.
CaptureAfterCooldown ==
  /\ event = "capture"
  /\ detection_count = 2
  /\ present_run = RunCap
  /\ last_capture_time >= StartTime + CAPTURE_COOLDOWN

\* ------------------------------------------------------------------- C30
\* C30: called without a classifier client, detect_people_and_costumes makes
\* no classifier call and returns the person-class boxes above the
\* threshold, each once, and nothing else.
NoClientNoInflatables ==
  (gate_pc = "returned" /\ ~baseten_client) =>
    /\ gate_log = <<>>
    /\ \A j \in DOMAIN detected_people :
          /\ detected_people[j].yolo_class = PERSON_CLASS
          /\ detected_people[j].detection_type = "person"
    /\ {detected_people[j].src : j \in DOMAIN detected_people}
         = {i \in DOMAIN results :
              results[i].cls = PERSON_CLASS /\ results[i].conf > CONFIDENCE_THRESHOLD}
    /\ \A j, k \in DOMAIN detected_people :
          detected_people[j].src = detected_people[k].src => j = k

\* Witness of C30: without a client, the detector emitted a person and a
\* car above the threshold and the person alone was returned.
NoClientInflatableDropped ==
  /\ gate_pc = "returned"
  /\ ~baseten_client
  /\ potential_inflatables # <<>>
  /\ Len(detected_people) = 1
  /\ Len(results) = 2
====
